---- MODULE Spec2Model ----
(***************************************************************************)
(* The TwinLens translator: the application shell (App), its camera       *)
(* (CameraCapture), its split viewer (SplitViewer) and the viewer's        *)
(* overlay geometry.                                                       *)
(*                                                                         *)
(* Numbers.  The source computes with IEEE doubles.  The model keeps       *)
(*   - the scale in thousandths (1.0 is 1000, 0.25 is 250, a wheel delta   *)
(*     of d changes the scale by -d * 0.002, i.e. by -2 d thousandths),    *)
(*   - percentages in hundredths of a percent (10% is 1000),               *)
(*   - the overlay opacity in hundredths (0.8 is 80),                      *)
(* which is exact for the inputs drawn here (integers).                    *)
(*                                                                         *)
(* Rendering.  React keeps the committed state of every useState hook and  *)
(* re-renders later; the handlers a user event reaches are the closures of *)
(* the LAST render.  Updates made in a discrete event (click, mousedown,   *)
(* mouseup, touchstart, touchend, change) are rendered before the next     *)
(* event is handled; updates made in a continuous event (wheel, mousemove, *)
(* touchmove, mouseleave) or outside React's events (Image.onload,         *)
(* FileReader.onloadend, a promise continuation) are rendered by a later   *)
(* task, so further events may be handled before that render: Render is    *)
(* then an action of its own.                                              *)
(***************************************************************************)
EXTENDS Integers, Sequences, FiniteSets, TLC

VARIABLES
    \* ---- App (src/unnamed/part_000) ----
    appState,        \* useState<AppState>
    imageData,       \* useState<string | null>
    translations,    \* useState<TranslationItem[]>
    errorMsg,        \* useState<string | null>
    readers,         \* FileReader loads in flight (handleFileUpload)
    calls,           \* processImage calls awaiting translateImageContent, each with
                     \* whether the state set at its start has been rendered
    nCalls,          \* processImage calls made so far (bounded by MaxCalls)
    ui,              \* what App's last render showed: appState, imageData, translations
    \* ---- CameraCapture (src/components/CameraCapture.tsx) ----
    cam,             \* the mounted instance: which getUserMedia request is its own
                     \* (0: no instance), useState<MediaStream | null>, and whether
                     \* the last render's handleCapture has captured the stream
    streams,         \* every getUserMedia request made: pending, live, stopped, denied
    nSessions,       \* CameraCapture instances mounted so far (bounded by MaxSessions)
    \* ---- SplitViewer (src/unnamed/part_002) ----
    viewState,       \* useState<ViewState>: x, y, scale
    isDragging,      \* useState(false)
    imageDims,       \* useState<{w,h,ratio} | null>: <<>> is null
    overlayOpacity,  \* useState(0.8), in hundredths
    lastPosition,    \* useRef({x: 0, y: 0})
    loads,           \* Image objects whose onload has not fired yet (their src)
    closure,         \* viewState.scale and isDragging as captured by the last render
    frame,           \* the two panes the last render produced
    \* ---- history, for stating the claims ----
    last,            \* the last handler: its name, whether it changed viewState,
                     \* (zoom handlers) which bound its unclamped target crossed, and
                     \* whether viewState is untouched since the image source arrived
    drag             \* the drag gesture under way: where it started

cameraVars == <<cam, streams, nSessions>>
appVars    == <<appState, imageData, translations, errorMsg, readers, calls, nCalls, ui,
                cameraVars>>
viewerVars == <<viewState, isDragging, imageDims, overlayOpacity, lastPosition,
                loads, closure, frame>>
histVars   == <<last, drag>>
vars       == <<appVars, viewerVars, histVars>>

----------------------------------------------------------------------------
(* Bounds of the model and the inputs drawn.                               *)

MaxPanX == 20
MaxPanY == 5
MaxCalls == 3
MaxSessions == 2

Pos == {<<0, 0>>, <<10, 5>>, <<20, 5>>}
WheelDeltas == {-250, 5000}
AppWheelDeltas == {-250}
Sources == {"imgA", "imgB"}
NoImage == "null"

----------------------------------------------------------------------------
(* Constants of the program.                                               *)

InitialScale == 1000
MinScale == 500
MaxScale == 8000
ZoomStep == 250
WheelSensitivity == 2
InitialOpacity == 80
SliderMin == 20
SliderMax == 100
VerticalTenths == 13

Min(a, b) == IF a < b THEN a ELSE b
Max(a, b) == IF a > b THEN a ELSE b
Abs(a) == IF a < 0 THEN -a ELSE a

----------------------------------------------------------------------------
(* Images.  An image's intrinsic size is known once its load completes.    *)

NaturalSize(src) ==
    IF src = "imgA" THEN [w |-> 1200, h |-> 800]
    ELSE IF src = "imgB" THEN [w |-> 800, h |-> 1200]
    ELSE [w |-> 1000, h |-> 1000]

\* img.onload: { w: naturalWidth, h: naturalHeight, ratio: w / h }; the ratio is
\* kept as the pair <<w, h>>.
DimsOf(src) ==
    LET n == NaturalSize(src) IN [w |-> n.w, h |-> n.h, ratio |-> <<n.w, n.h>>]

----------------------------------------------------------------------------
(* Overlay geometry and text fit: the body of translations.map in          *)
(* renderImageContent.                                                     *)

\* v / 10, a percentage, in hundredths of a percent.
GridPercent(v) == (v * 100) \div 10

\* Placement with the far edges taken for the width and the height.
PlacementAbsolute(box) ==
    [top    |-> GridPercent(box[1]),
     left   |-> GridPercent(box[2]),
     width  |-> GridPercent(box[4]),
     height |-> GridPercent(box[3])]

\* top, left, width, height of the overlay box.
Placement(box) ==
    LET ymin == box[1]
        xmin == box[2]
        ymax == box[3]
        xmax == box[4]
    IN  [top    |-> GridPercent(ymin),
         left   |-> GridPercent(xmin),
         width  |-> GridPercent(xmax - xmin),
         height |-> GridPercent(ymax - ymin)]

\* IsVertical with >= for >.
IsVerticalInclusive(box) ==
    10 * (box[3] - box[1]) >= VerticalTenths * (box[4] - box[2])

\* (ymax - ymin) > (xmax - xmin) * 1.3.  For integer coordinates the double
\* product w * 1.3 is exact whenever 1.3 w is an integer and is otherwise off an
\* integer by at least 0.1, so the comparison is that of 10 h with 13 w.
IsVertical(box) ==
    LET ymin == box[1]
        xmin == box[2]
        ymax == box[3]
        xmax == box[4]
    IN  10 * (ymax - ymin) > VerticalTenths * (xmax - xmin)

\* The length taken as it is, 0 for an empty text.
TextLenRaw(text) == Len(text)

\* item.translatedText.length || 1
TextLen(text) == IF Len(text) = 0 THEN 1 ELSE Len(text)

\* fontSize: min(85cqw, (95 / textLen)cqh) when vertical, else
\* min(85cqh, (95 / textLen)cqw); 95 / textLen is kept as the pair <<95, textLen>>.
\* lineHeight in tenths.
TextFit(text, isVertical) ==
    [capPercent |-> 85,
     capUnit    |-> IF isVertical THEN "cqw" ELSE "cqh",
     fitPercent |-> <<95, TextLen(text)>>,
     fitUnit    |-> IF isVertical THEN "cqh" ELSE "cqw",
     lineHeight |-> IF isVertical THEN 11 ELSE 10]

\* One overlay box of the translated pane.
OverlayStyle(item, opacity) ==
    LET isVertical == IsVertical(item.box_2d) IN
    [place       |-> Placement(item.box_2d),
     background  |-> opacity,
     writingMode |-> IF isVertical THEN "vertical-rl" ELSE "horizontal-tb",
     font        |-> TextFit(item.translatedText, isVertical),
     text        |-> item.translatedText]

\* The transform both panes' wrappers get.
PaneTransform(vs) == [x |-> vs.x, y |-> vs.y, scale |-> vs.scale]

\* renderImageContent with the translated pane left untransformed.
RenderImageContentUnsynced(mode, vs, dragging, dims, opacity, img, trs) ==
    IF dims = <<>> THEN <<>>
    ELSE <<[transform  |-> IF mode = "translated"
                           THEN [x |-> 0, y |-> 0, scale |-> 1000]
                           ELSE [x |-> vs.x, y |-> vs.y, scale |-> vs.scale],
            transition |-> IF dragging THEN "none" ELSE "ease-out",
            aspect     |-> dims[1].ratio,
            fill       |-> IF dims[1].w > dims[1].h THEN "width" ELSE "height",
            image      |-> img,
            overlays   |-> IF mode = "translated"
                           THEN [i \in 1..Len(trs) |-> OverlayStyle(trs[i], opacity)]
                           ELSE <<>>]>>

\* renderImageContent with the overlays drawn from the last region to the first.
RenderImageContentReversed(mode, vs, dragging, dims, opacity, img, trs) ==
    IF dims = <<>> THEN <<>>
    ELSE <<[transform  |-> [x |-> vs.x, y |-> vs.y, scale |-> vs.scale],
            transition |-> IF dragging THEN "none" ELSE "ease-out",
            aspect     |-> dims[1].ratio,
            fill       |-> IF dims[1].w > dims[1].h THEN "width" ELSE "height",
            image      |-> img,
            overlays   |-> IF mode = "translated"
                           THEN [i \in 1..Len(trs) |->
                                    OverlayStyle(trs[Len(trs) + 1 - i], opacity)]
                           ELSE <<>>]>>

\* renderImageContent(mode): <<>> is null (nothing rendered).
RenderImageContent(mode, vs, dragging, dims, opacity, img, trs) ==
    IF dims = <<>> THEN <<>>
    ELSE <<[transform  |-> PaneTransform(vs),
            transition |-> IF dragging THEN "none" ELSE "ease-out",
            aspect     |-> dims[1].ratio,
            fill       |-> IF dims[1].w > dims[1].h THEN "width" ELSE "height",
            image      |-> img,
            overlays   |-> IF mode = "translated"
                           THEN [i \in 1..Len(trs) |-> OverlayStyle(trs[i], opacity)]
                           ELSE <<>>]>>

\* The two panes of one render of SplitViewer.
RenderPanes(vs, dragging, dims, opacity, img, trs) ==
    [original   |-> RenderImageContent("original", vs, dragging, dims, opacity, img, trs),
     translated |-> RenderImageContent("translated", vs, dragging, dims, opacity, img, trs)]

\* What the handlers created by one render have captured: handleWheel reads
\* viewState.scale, handleMouseMove reads isDragging.
Captured(vs, dragging) == [scale |-> vs.scale, isDragging |-> dragging]

\* SplitViewer is in the tree iff App's render took the VIEWING branch.
Mounted == ui.appState = "VIEWING" /\ ui.imageData # NoImage

NoFrame == [original |-> <<>>, translated |-> <<>>]

----------------------------------------------------------------------------
(* SplitViewer: state after mounting, and rendering.                       *)

InitialView == [x |-> 0, y |-> 0, scale |-> InitialScale]
InitialPosition == <<0, 0>>
NoDrag == [phase |-> "none", p0 |-> <<0, 0>>, pan0 |-> <<0, 0>>]

Crossing(raw) ==
    IF raw > MaxScale THEN "high" ELSE IF raw < MinScale THEN "low" ELSE "none"

\* fresh: the viewer is showing an image source since whose arrival no handler
\* has changed viewState.
Did(op, raw) ==
    [op      |-> op,
     changed |-> viewState' # viewState,
     crossed |-> Crossing(raw),
     fresh   |-> IF ~(ui'.appState = "VIEWING" /\ ui'.imageData # NoImage) THEN TRUE
                 ELSE IF ~Mounted \/ ui'.imageData # ui.imageData THEN TRUE
                 ELSE IF viewState' # viewState THEN FALSE
                 ELSE last.fresh]

\* The useState/useRef initial values of a SplitViewer instance (also the
\* values the model gives these variables while no viewer is mounted).
ViewerFresh ==
    /\ viewState' = InitialView
    /\ isDragging' = FALSE
    /\ imageDims' = <<>>
    /\ overlayOpacity' = InitialOpacity
    /\ lastPosition' = InitialPosition

\* The render React runs before the next event after a discrete event handled by
\* the viewer: new handler closures and new panes, from the state just set and the
\* props of App's last render.
RenderViewerNow ==
    /\ closure' = Captured(viewState', isDragging')
    /\ frame' = RenderPanes(viewState', isDragging', imageDims', overlayOpacity',
                            ui.imageData, ui.translations)

\* The render is left to a later task.
RenderLater == UNCHANGED <<closure, frame>>

----------------------------------------------------------------------------
(* SplitViewer: the handlers.                                              *)

\* handleWheel's newScale without Math.max(0.5, ...).
WheelScaleNoFloor(captured, deltaY) ==
    Min(captured + (-deltaY) * WheelSensitivity, MaxScale)

\* handleWheel's newScale, from the scale its closure captured.
WheelScale(captured, deltaY) ==
    LET scaleChange == (-deltaY) * WheelSensitivity
    IN  Min(Max(MinScale, captured + scaleChange), MaxScale)

\* onWheel (continuous).
handleWheel(deltaY) ==
    /\ Mounted
    /\ viewState' = [viewState EXCEPT !.scale = WheelScale(closure.scale, deltaY)]
    /\ UNCHANGED <<isDragging, imageDims, overlayOpacity, lastPosition, loads>>
    /\ RenderLater
    /\ UNCHANGED <<drag, appVars>>
    /\ last' = Did("wheel", closure.scale + (-deltaY) * WheelSensitivity)

\* onMouseDown, onTouchStart (discrete).
handleMouseDown(p) ==
    /\ Mounted
    /\ isDragging' = TRUE
    /\ lastPosition' = p
    /\ UNCHANGED <<viewState, imageDims, overlayOpacity, loads>>
    /\ RenderViewerNow
    /\ drag' = [phase |-> "open", p0 |-> p, pan0 |-> <<viewState.x, viewState.y>>]
    /\ UNCHANGED appVars
    /\ last' = Did("down", InitialScale)

\* The pan after a move, the pointer's coordinates taken for the delta.
PannedAbsolute(prev, from, p) ==
    [prev EXCEPT !.x = prev.x + p[1], !.y = prev.y + p[2]]

\* The pan after a move to p: prev.x + dx, prev.y + dy.
Panned(prev, from, p) ==
    [prev EXCEPT !.x = prev.x + (p[1] - from[1]), !.y = prev.y + (p[2] - from[2])]

\* onMouseMove, onTouchMove (continuous).
handleMouseMove(p) ==
    /\ Mounted
    /\ IF ~closure.isDragging
       THEN UNCHANGED <<viewState, lastPosition>>
       ELSE /\ Abs(Panned(viewState, lastPosition, p).x) <= MaxPanX
            /\ Abs(Panned(viewState, lastPosition, p).y) <= MaxPanY
            /\ lastPosition' = p
            /\ viewState' = Panned(viewState, lastPosition, p)
    /\ UNCHANGED <<isDragging, imageDims, overlayOpacity, loads>>
    /\ RenderLater
    /\ drag' = IF drag.phase \in {"open", "broken"} THEN drag ELSE NoDrag
    /\ UNCHANGED appVars
    /\ last' = Did("move", InitialScale)

Released == IF drag.phase = "open" THEN [drag EXCEPT !.phase = "released"] ELSE NoDrag

\* onMouseUp, onTouchEnd (discrete).
handleMouseUp ==
    /\ Mounted
    /\ isDragging' = FALSE
    /\ UNCHANGED <<viewState, imageDims, overlayOpacity, lastPosition, loads>>
    /\ RenderViewerNow
    /\ drag' = Released
    /\ UNCHANGED appVars
    /\ last' = Did("up", InitialScale)

\* The viewport without onMouseLeave: leaving changes nothing.
handleMouseLeaveUnbound ==
    /\ Mounted
    /\ UNCHANGED <<viewState, isDragging, imageDims, overlayOpacity, lastPosition, loads>>
    /\ RenderLater
    /\ drag' = Released
    /\ UNCHANGED appVars
    /\ last' = Did("leave", InitialScale)

\* onMouseLeave={handleMouseUp} (continuous).
handleMouseLeave ==
    /\ Mounted
    /\ isDragging' = FALSE
    /\ UNCHANGED <<viewState, imageDims, overlayOpacity, lastPosition, loads>>
    /\ RenderLater
    /\ drag' = Released
    /\ UNCHANGED appVars
    /\ last' = Did("leave", InitialScale)

\* The '-' updater without Math.max(0.5, ...).
ZoomOutScaleNoFloor(s) == s - ZoomStep

\* The updaters of the two stepper buttons.
ZoomOutScale(s) == Max(MinScale, s - ZoomStep)
ZoomInScale(s) == Min(MaxScale, s + ZoomStep)

\* onClick of '-' (discrete).
zoomOut ==
    /\ Mounted
    /\ viewState' = [viewState EXCEPT !.scale = ZoomOutScale(viewState.scale)]
    /\ UNCHANGED <<isDragging, imageDims, overlayOpacity, lastPosition, loads>>
    /\ RenderViewerNow
    /\ UNCHANGED <<drag, appVars>>
    /\ last' = Did("minus", viewState.scale - ZoomStep)

\* onClick of '+' (discrete).
zoomIn ==
    /\ Mounted
    /\ viewState' = [viewState EXCEPT !.scale = ZoomInScale(viewState.scale)]
    /\ UNCHANGED <<isDragging, imageDims, overlayOpacity, lastPosition, loads>>
    /\ RenderViewerNow
    /\ UNCHANGED <<drag, appVars>>
    /\ last' = Did("plus", viewState.scale + ZoomStep)

\* A reset during a drag: the gesture no longer tells the pan.
Interrupted ==
    IF drag.phase \in {"open", "broken"} THEN [NoDrag EXCEPT !.phase = "broken"] ELSE NoDrag

\* A reset that keeps the scale.
ResetValueKeepsScale == [x |-> 0, y |-> 0, scale |-> viewState.scale]

\* What resetView stores.
ResetValue == [x |-> 0, y |-> 0, scale |-> 1000]

\* onClick of Reset (discrete).
resetView ==
    /\ Mounted
    /\ viewState' = ResetValue
    /\ UNCHANGED <<isDragging, imageDims, overlayOpacity, lastPosition, loads>>
    /\ RenderViewerNow
    /\ drag' = Interrupted
    /\ UNCHANGED appVars
    /\ last' = Did("reset", InitialScale)

\* The slider's value taken for the opacity, not divided by 100.
SliderOpacityUndivided(value) == value * 100

\* Number(e.target.value) / 100, in hundredths.
SliderOpacity(value) == (value * 100) \div 100

\* onChange of the opacity slider (discrete).
setOpacity(value) ==
    /\ Mounted
    /\ overlayOpacity' = SliderOpacity(value)
    /\ UNCHANGED <<viewState, isDragging, imageDims, lastPosition, loads>>
    /\ RenderViewerNow
    /\ UNCHANGED <<drag, appVars>>
    /\ last' = Did("opacity", InitialScale)

\* img.onload of a load the effect started (outside React's events).
imgOnload(src) ==
    /\ Mounted
    /\ src \in loads
    /\ imageDims' = <<DimsOf(src)>>
    /\ loads' = loads \ {src}
    /\ UNCHANGED <<viewState, isDragging, overlayOpacity, lastPosition>>
    /\ RenderLater
    /\ UNCHANGED <<drag, appVars>>
    /\ last' = Did("load", InitialScale)

----------------------------------------------------------------------------
(* App: rendering.                                                         *)

Shown(st, img, trs) == [appState |-> st, imageData |-> img, translations |-> trs]

\* The viewer leaves the tree: its state is gone, and an Image.onload that fires
\* later sets the state of an instance that no longer exists.
Unmount ==
    /\ ViewerFresh
    /\ loads' = {}
    /\ closure' = Captured(InitialView, FALSE)
    /\ frame' = NoFrame

\* A new viewer instance: initial state, first render, then the effect of
\* useEffect(..., [imageData]) starts loading the image.
Mount(img) ==
    /\ ViewerFresh
    /\ loads' = {img}
    /\ closure' = Captured(InitialView, FALSE)
    /\ frame' = NoFrame

\* The viewer stays in the tree and renders again with the props given; the
\* effect runs again iff imageData changed.
Rerender(img, trs) ==
    /\ UNCHANGED <<viewState, isDragging, imageDims, overlayOpacity, lastPosition>>
    /\ loads' = IF img # ui.imageData THEN loads \cup {img} ELSE loads
    /\ closure' = Captured(viewState, isDragging)
    /\ frame' = RenderPanes(viewState, isDragging, imageDims, overlayOpacity, img, trs)

Sessions == 1..MaxSessions
NoCamera == [id |-> 0, stream |-> "null", seen |-> FALSE]

\* if (stream) stream.getTracks().forEach(track => track.stop()), held being
\* whether the `stream` the code reads is the MediaStream.
Stopped(ss, id, held) ==
    IF held /\ id \in Sessions /\ ss[id] = "live" THEN [ss EXCEPT ![id] = "stopped"] ELSE ss

\* CameraCapture in one render of App, ss being the streams as the handler left
\* them.  Mounting: first render (stream null), then the effect calls
\* getUserMedia.  Unmounting: the effect's cleanup runs; the effect has [] for
\* its dependencies, so the cleanup is the one of the first render and the
\* `stream` it reads is null.
CameraCommit(st, ss) ==
    IF st = "CAMERA" /\ ui.appState # "CAMERA"
    THEN /\ cam' = [id |-> nSessions + 1, stream |-> "null", seen |-> FALSE]
         /\ streams' = [ss EXCEPT ![nSessions + 1] = "pending"]
         /\ nSessions' = nSessions + 1
    ELSE IF st = "CAMERA"
    THEN /\ cam' = [cam EXCEPT !.seen = (cam.stream = "set")]
         /\ streams' = ss
         /\ UNCHANGED nSessions
    ELSE IF ui.appState = "CAMERA"
    THEN /\ cam' = NoCamera
         /\ streams' = Stopped(ss, cam.id, FALSE)
         /\ UNCHANGED nSessions
    ELSE /\ UNCHANGED <<cam, nSessions>>
         /\ streams' = ss

\* One render of the whole tree from the state committed so far.
CommitWith(st, img, trs, ss) ==
    LET now == st = "VIEWING" /\ img # NoImage IN
    /\ CameraCommit(st, ss)
    /\ ui' = Shown(st, img, trs)
    /\ IF now /\ ~Mounted THEN Mount(img)
       ELSE IF now /\ Mounted THEN Rerender(img, trs)
       ELSE IF Mounted THEN Unmount
       ELSE UNCHANGED viewerVars
    /\ drag' = IF now /\ Mounted THEN drag ELSE NoDrag

Commit(st, img, trs) == CommitWith(st, img, trs, streams)

\* The render React runs before the next event after a discrete event handled by App.
RenderAppNow == Commit(appState', imageData', translations')

\* Every call in flight has had the state set at its start rendered.
AllRendered(cs) == {[c EXCEPT !.rendered = TRUE] : c \in cs}

\* Something is committed that the last render has not shown.
Stale ==
    \/ ui # Shown(appState, imageData, translations)
    \/ \E c \in calls : ~c.rendered
    \/ ui.appState = "CAMERA" /\ cam.seen # (cam.stream = "set")
    \/ /\ Mounted
       /\ \/ closure # Captured(viewState, isDragging)
          \/ frame # RenderPanes(viewState, isDragging, imageDims, overlayOpacity,
                                 ui.imageData, ui.translations)

\* The render a later task runs.
Render ==
    /\ Stale
    /\ Commit(appState, imageData, translations)
    /\ calls' = AllRendered(calls)
    /\ UNCHANGED <<appState, imageData, translations, errorMsg, readers, nCalls>>
    /\ last' = Did("render", InitialScale)

----------------------------------------------------------------------------
(* App: the handlers.                                                      *)

NoError == "null"

\* What translateImageContent resolves to for an image.
RegionsOf(src) ==
    IF src = "imgA"
    THEN << [originalText |-> <<"H", "i">>, translatedText |-> <<"x", "y">>,
             box_2d |-> <<100, 200, 300, 600>>],
            [originalText |-> <<"o">>, translatedText |-> <<>>,
             box_2d |-> <<0, 0, 500, 1000>>] >>
    ELSE << [originalText |-> <<"v">>, translatedText |-> <<"z">>,
             box_2d |-> <<100, 100, 231, 200>>] >>

\* processImage up to its await: the three setState calls and the call of
\* translateImageContent.  now: the caller is a discrete event, after which
\* React renders at once.
processImageStart(imageSrc, now) ==
    /\ nCalls < MaxCalls
    /\ imageData' = imageSrc
    /\ appState' = "PROCESSING"
    /\ errorMsg' = NoError
    /\ nCalls' = nCalls + 1
    /\ calls' = (IF now THEN AllRendered(calls) ELSE calls)
                   \cup {[id |-> nCalls + 1, src |-> imageSrc, rendered |-> now]}
    /\ UNCHANGED translations

\* processImage after its await, the call resolved (a promise continuation).
\* The call is a network round trip: the render React queued when the call
\* started has run by the time it resolves.
translateResolved(c) ==
    /\ c \in calls
    /\ c.rendered
    /\ translations' = RegionsOf(c.src)
    /\ appState' = "VIEWING"
    /\ calls' = calls \ {c}
    /\ UNCHANGED <<imageData, errorMsg, readers, nCalls, ui, cameraVars, viewerVars, drag>>
    /\ last' = Did("translated", InitialScale)

\* processImage's catch, the call rejected (a promise continuation); a call
\* may reject at once (getGeminiClient throws without an API key).
translateRejected(c) ==
    /\ c \in calls
    /\ errorMsg' = "Failed to translate image. Please try again."
    /\ appState' = "ERROR"
    /\ calls' = calls \ {c}
    /\ UNCHANGED <<imageData, translations, readers, nCalls, ui, cameraVars, viewerVars,
                   drag>>
    /\ last' = Did("failed", InitialScale)

PendingReaders == readers["imgA"] + readers["imgB"]

\* onChange of the file input, shown in the IDLE branch: starts a FileReader.
handleFileUpload(file) ==
    /\ ui.appState = "IDLE"
    /\ nCalls + PendingReaders < MaxCalls
    /\ readers' = [readers EXCEPT ![file] = @ + 1]
    /\ UNCHANGED <<appState, imageData, translations, errorMsg, calls, nCalls, ui,
                   cameraVars, viewerVars, drag>>
    /\ last' = Did("file", InitialScale)

\* reader.onloadend: processImage(reader.result) (outside React's events).
readerOnloadend(file) ==
    /\ readers[file] > 0
    /\ readers' = [readers EXCEPT ![file] = @ - 1]
    /\ processImageStart(file, FALSE)
    /\ UNCHANGED <<ui, cameraVars, viewerVars, drag>>
    /\ last' = Did("read", InitialScale)

\* onClick of Take Photo, shown in the IDLE branch (discrete).
takePhoto ==
    /\ ui.appState = "IDLE"
    /\ nSessions < MaxSessions
    /\ appState' = "CAMERA"
    /\ calls' = AllRendered(calls)
    /\ UNCHANGED <<imageData, translations, errorMsg, readers, nCalls>>
    /\ RenderAppNow
    /\ last' = Did("camera", InitialScale)

\* CameraCapture's onCancel, shown in the CAMERA branch (discrete).
cameraCancel ==
    /\ ui.appState = "CAMERA"
    /\ appState' = "IDLE"
    /\ calls' = AllRendered(calls)
    /\ UNCHANGED <<imageData, translations, errorMsg, readers, nCalls>>
    /\ RenderAppNow
    /\ last' = Did("cancel", InitialScale)

\* handleCapture, the shutter's onClick (discrete): stops the stream its render
\* captured, then onCapture={processImage}.
cameraCapture(shot) ==
    /\ ui.appState = "CAMERA"
    /\ processImageStart(shot, TRUE)
    /\ UNCHANGED readers
    /\ CommitWith(appState', imageData', translations', Stopped(streams, cam.id, cam.seen))
    /\ last' = Did("capture", InitialScale)

\* startCamera after its await, getUserMedia resolved (a promise continuation):
\* setStream, a no-op once the instance is unmounted.
getUserMediaResolved(i) ==
    /\ streams[i] = "pending"
    /\ streams' = [streams EXCEPT ![i] = "live"]
    /\ cam' = IF cam.id = i THEN [cam EXCEPT !.stream = "set"] ELSE cam
    /\ UNCHANGED <<appState, imageData, translations, errorMsg, readers, calls, nCalls, ui,
                   nSessions, viewerVars, drag>>
    /\ last' = Did("stream", InitialScale)

\* startCamera's catch, getUserMedia rejected (a promise continuation): alert,
\* then onCancel(), App's setAppState(IDLE).
getUserMediaRejected(i) ==
    /\ streams[i] = "pending"
    /\ streams' = [streams EXCEPT ![i] = "denied"]
    /\ appState' = "IDLE"
    /\ UNCHANGED <<imageData, translations, errorMsg, readers, calls, nCalls, ui,
                   cam, nSessions, viewerVars, drag>>
    /\ last' = Did("denied", InitialScale)

\* resetApp: Try Again in the ERROR branch, Close in the viewer (discrete).
resetApp ==
    /\ ui.appState = "ERROR" \/ Mounted
    /\ appState' = "IDLE"
    /\ imageData' = NoImage
    /\ translations' = <<>>
    /\ errorMsg' = NoError
    /\ calls' = AllRendered(calls)
    /\ UNCHANGED <<readers, nCalls>>
    /\ RenderAppNow
    /\ last' = Did("close", InitialScale)

----------------------------------------------------------------------------
(* Specifications.                                                         *)

TypeOK ==
    /\ appState \in {"IDLE", "CAMERA", "PROCESSING", "VIEWING", "ERROR"}
    /\ imageData \in Sources \cup {NoImage}
    /\ isDragging \in BOOLEAN
    /\ lastPosition \in Pos
    /\ loads \subseteq Sources
    /\ Len(imageDims) <= 1
    /\ cam.id \in 0..MaxSessions
    /\ nSessions \in 0..MaxSessions
    /\ \A i \in Sessions : streams[i] \in {"none", "pending", "live", "stopped", "denied"}

\* One viewing session: App has translated imgA and mounted the viewer, whose
\* effect has started loading the image.
Init ==
    /\ appState = "VIEWING"
    /\ imageData = "imgA"
    /\ translations = RegionsOf("imgA")
    /\ errorMsg = NoError
    /\ readers = [s \in Sources |-> 0]
    /\ calls = {}
    /\ nCalls = 1
    /\ ui = Shown("VIEWING", "imgA", RegionsOf("imgA"))
    /\ cam = NoCamera
    /\ streams = [i \in Sessions |-> "none"]
    /\ nSessions = 0
    /\ viewState = InitialView
    /\ isDragging = FALSE
    /\ imageDims = <<>>
    /\ overlayOpacity = InitialOpacity
    /\ lastPosition = InitialPosition
    /\ loads = {"imgA"}
    /\ closure = Captured(InitialView, FALSE)
    /\ frame = NoFrame
    /\ last = [op |-> "render", changed |-> FALSE, crossed |-> "none", fresh |-> TRUE]
    /\ drag = NoDrag

Next ==
    \/ \E d \in WheelDeltas : handleWheel(d)
    \/ \E p \in Pos : handleMouseDown(p)
    \/ \E p \in Pos : handleMouseMove(p)
    \/ handleMouseUp
    \/ handleMouseLeave
    \/ zoomOut
    \/ zoomIn
    \/ resetView
    \/ \E s \in Sources : imgOnload(s)
    \/ Render

Spec == Init /\ [][Next]_vars

\* The application from its start: nothing chosen yet, no viewer.
InitApp ==
    /\ appState = "IDLE"
    /\ imageData = NoImage
    /\ translations = <<>>
    /\ errorMsg = NoError
    /\ readers = [s \in Sources |-> 0]
    /\ calls = {}
    /\ nCalls = 0
    /\ ui = Shown("IDLE", NoImage, <<>>)
    /\ cam = NoCamera
    /\ streams = [i \in Sessions |-> "none"]
    /\ nSessions = 0
    /\ viewState = InitialView
    /\ isDragging = FALSE
    /\ imageDims = <<>>
    /\ overlayOpacity = InitialOpacity
    /\ lastPosition = InitialPosition
    /\ loads = {}
    /\ closure = Captured(InitialView, FALSE)
    /\ frame = NoFrame
    /\ last = [op |-> "render", changed |-> FALSE, crossed |-> "none", fresh |-> TRUE]
    /\ drag = NoDrag

NextApp ==
    \/ \E f \in Sources : handleFileUpload(f)
    \/ \E f \in Sources : readerOnloadend(f)
    \/ \E c \in calls : translateResolved(c)
    \/ \E c \in calls : translateRejected(c)
    \/ takePhoto
    \/ cameraCancel
    \/ \E f \in Sources : cameraCapture(f)
    \/ resetApp
    \/ \E d \in AppWheelDeltas : handleWheel(d)
    \/ \E s \in Sources : imgOnload(s)
    \/ Render

SpecApp == InitApp /\ [][NextApp]_vars

\* One region of any shape in a mounted viewer: the geometry's inputs.
GeomY == {-50, 0, 100, 230, 231, 300, 500, 1100}
GeomX == {0, 100, 200, 600, 1000}
GeomTexts == {<<>>, <<"a">>, <<"a", "b">>}
GeomSources == {"imgA", "imgB", "imgC"}
GeomViews == {<<InitialView, InitialPosition, InitialOpacity>>,
              <<[x |-> 20, y |-> 5, scale |-> 2000], <<20, 5>>, SliderMin>>}

InitGeom ==
    \E ymin \in GeomY, ymax \in GeomY, xmin \in GeomX, xmax \in GeomX,
       text \in GeomTexts, src \in GeomSources, view \in GeomViews :
        LET item == [originalText |-> <<"o">>, translatedText |-> text,
                     box_2d |-> <<ymin, xmin, ymax, xmax>>]
        IN  /\ appState = "VIEWING"
            /\ imageData = src
            /\ translations = <<item>>
            /\ errorMsg = NoError
            /\ readers = [s \in Sources |-> 0]
            /\ calls = {}
            /\ nCalls = 1
            /\ ui = Shown("VIEWING", src, <<item>>)
            /\ cam = NoCamera
            /\ streams = [i \in Sessions |-> "none"]
            /\ nSessions = 0
            /\ viewState = view[1]
            /\ isDragging = FALSE
            /\ imageDims = <<>>
            /\ overlayOpacity = view[3]
            /\ lastPosition = view[2]
            /\ loads = {src}
            /\ closure = Captured(view[1], FALSE)
            /\ frame = NoFrame
            /\ last = [op |-> "render", changed |-> FALSE, crossed |-> "none", fresh |-> TRUE]
            /\ drag = NoDrag

NextGeom ==
    \/ \E s \in GeomSources : imgOnload(s)
    \/ Render

SpecGeom == InitGeom /\ [][NextGeom]_vars

\* One viewing session with the opacity slider: the values the range input
\* (min 20, max 100) can report, and fewer pointer positions and wheel deltas.
SliderValues == {SliderMin, 55, SliderMax}
OpacityPos == {<<0, 0>>, <<10, 5>>}
OpacityWheelDeltas == {-250}

NextOpacity ==
    \/ \E v \in SliderValues : setOpacity(v)
    \/ \E d \in OpacityWheelDeltas : handleWheel(d)
    \/ \E p \in OpacityPos : handleMouseDown(p)
    \/ \E p \in OpacityPos : handleMouseMove(p)
    \/ handleMouseUp
    \/ handleMouseLeave
    \/ zoomOut
    \/ zoomIn
    \/ resetView
    \/ \E s \in Sources : imgOnload(s)
    \/ Render

SpecOpacity == Init /\ [][NextOpacity]_vars


\* A mounted viewer given any list of regions, the empty one included
\* (translateImageContent resolves to [] for an empty response).
RegionLists ==
    {<<>>, RegionsOf("imgA"), RegionsOf("imgB"),
     <<RegionsOf("imgA")[2], RegionsOf("imgA")[1]>>}

InitPanes ==
    \E trs \in RegionLists, src \in GeomSources, view \in GeomViews :
        /\ appState = "VIEWING"
        /\ imageData = src
        /\ translations = trs
        /\ errorMsg = NoError
        /\ readers = [s \in Sources |-> 0]
        /\ calls = {}
        /\ nCalls = 1
        /\ ui = Shown("VIEWING", src, trs)
        /\ cam = NoCamera
        /\ streams = [i \in Sessions |-> "none"]
        /\ nSessions = 0
        /\ viewState = view[1]
        /\ isDragging = FALSE
        /\ imageDims = <<>>
        /\ overlayOpacity = view[3]
        /\ lastPosition = view[2]
        /\ loads = {src}
        /\ closure = Captured(view[1], FALSE)
        /\ frame = NoFrame
        /\ last = [op |-> "render", changed |-> FALSE, crossed |-> "none", fresh |-> TRUE]
        /\ drag = NoDrag

NextPanes ==
    \/ \E v \in SliderValues : setOpacity(v)
    \/ \E s \in GeomSources : imgOnload(s)
    \/ Render

SpecPanes == InitPanes /\ [][NextPanes]_vars


\* The application with its camera: the flow from the start, the getUserMedia
\* requests settling at any time.
NextCamera ==
    \/ \E f \in Sources : handleFileUpload(f)
    \/ \E f \in Sources : readerOnloadend(f)
    \/ \E c \in calls : translateResolved(c)
    \/ \E c \in calls : translateRejected(c)
    \/ takePhoto
    \/ cameraCancel
    \/ \E f \in Sources : cameraCapture(f)
    \/ \E i \in Sessions : getUserMediaResolved(i)
    \/ \E i \in Sessions : getUserMediaRejected(i)
    \/ resetApp
    \/ Render

SpecCamera == InitApp /\ [][NextCamera]_vars


----------------------------------------------------------------------------
(* The claims.                                                             *)

\* The ViewTransform the claims call {panX: 0, panY: 0, scale: 1}.
Origin == [x |-> 0, y |-> 0, scale |-> 1000]

\* C1. Transform synchronization: in every rendered frame the original pane and
\* the translated pane carry the same (panX, panY, scale); either both panes
\* have content or neither has.
TheoremC1 ==
    /\ (frame.original = <<>>) <=> (frame.translated = <<>>)
    /\ frame.original # <<>> =>
           frame.original[1].transform = frame.translated[1].transform

\* C1's case: a frame rendered after panning and zooming, with overlays.
WitnessC1 ==
    /\ frame.original # <<>>
    /\ frame.original[1].transform = [x |-> 20, y |-> 5, scale |-> 2500]
    /\ frame.translated[1].transform = [x |-> 20, y |-> 5, scale |-> 2500]
    /\ Len(frame.translated[1].overlays) = 2

DragTotal ==
    drag.phase \in {"open", "released"} =>
        /\ viewState.x - drag.pan0[1] = lastPosition[1] - drag.p0[1]
        /\ viewState.y - drag.pan0[2] = lastPosition[2] - drag.p0[2]

\* A move to the position of the previous one changes no pan.
SamePointMoves ==
    [][\A p \in Pos : (handleMouseMove(p) /\ p = lastPosition) => viewState' = viewState]_vars

\* C3. Drag delta accumulation: throughout a drag (down at p0, moves, release) and
\* at its release the total change of (panX, panY) is pn - p0, pn the last position
\* moved to; a move to the position of the previous one changes nothing.
TheoremC3 == []DragTotal /\ SamePointMoves

\* C3's case: a drag from (0,0) that was released at (20,5), begun at a pan
\* other than the origin.
WitnessC3 ==
    /\ drag.phase = "released"
    /\ drag.p0 = <<0, 0>>
    /\ drag.pan0 = <<-10, -5>>
    /\ lastPosition = <<20, 5>>
    /\ viewState.x = 10
    /\ viewState.y = 0

\* C4. Drag state machine: the controller is Idle or Dragging, Idle at the start;
\* it is Dragging exactly while a pointer/touch-down has been followed by no
\* up or leave; right after a down the anchor is the pointer's position; right
\* after an up or a leave it is Idle.
TheoremC4 ==
    /\ isDragging \in BOOLEAN
    /\ isDragging <=> drag.phase \in {"open", "broken"}
    /\ last.op = "down" => isDragging /\ lastPosition = drag.p0
    /\ last.op \in {"up", "leave"} => ~isDragging

\* C4's case: the pointer left the surface during a drag.
WitnessC4 ==
    /\ last.op = "leave"
    /\ drag.phase = "released"
    /\ ~isDragging
    /\ viewState # Origin

ClampC5(v) == IF v < 500 THEN 500 ELSE IF v > 8000 THEN 8000 ELSE v

\* C5. Wheel zoom: every wheel event with vertical delta d sets the scale to
\* clamp(s + (-d * 0.002), 0.5, 8.0), s being the scale all earlier zoom and
\* reset events produced, also when events are handled before a re-render.
CounterC5 ==
    [][\A d \in WheelDeltas :
          handleWheel(d) => viewState'.scale = ClampC5(viewState.scale + (-d) * 2)]_vars

\* The '+' and '-' clicks are the clamped steps of 0.25.
StepperSteps ==
    [][/\ zoomIn => viewState'.scale = (IF viewState.scale + 250 > 8000
                                        THEN 8000 ELSE viewState.scale + 250)
       /\ zoomOut => viewState'.scale = (IF viewState.scale - 250 < 500
                                         THEN 500 ELSE viewState.scale - 250)]_vars

RECURSIVE Clicks(_, _, _)
Clicks(up, s, n) ==
    IF n = 0 THEN s
    ELSE Clicks(up, IF up THEN ZoomInScale(s) ELSE ZoomOutScale(s), n - 1)

\* From the present scale, 30 clicks on '+' (on '-') end at 8.0 (at 0.5), and so
\* does every longer run of clicks.
StepperSaturates ==
    /\ Clicks(TRUE, viewState.scale, 30) = 8000
    /\ Clicks(TRUE, viewState.scale, 31) = 8000
    /\ Clicks(FALSE, viewState.scale, 30) = 500
    /\ Clicks(FALSE, viewState.scale, 31) = 500

\* C6. Stepper zoom: '+' sets the scale to min(8.0, scale + 0.25), '-' to
\* max(0.5, scale - 0.25); from any reachable scale repeated '+' clicks reach
\* exactly 8.0 and stay, repeated '-' clicks reach exactly 0.5 and stay.
TheoremC6 == StepperSteps /\ []StepperSaturates

\* C6's case: a '+' click at 8.0 has left the scale at 8.0.
WitnessC6 ==
    /\ last.op = "plus"
    /\ last.crossed = "high"
    /\ ~last.changed
    /\ viewState.scale = 8000

\* C7. Reset: right after a reset, from whatever state and however often it is
\* repeated, the transform is {panX: 0, panY: 0, scale: 1}.
TheoremC7 == last.op = "reset" => viewState = Origin

\* C7's case: a reset during a drag that changed the transform.
WitnessC7 ==
    /\ last.op = "reset"
    /\ last.changed
    /\ isDragging
    /\ lastPosition # <<0, 0>>

\* C8. When the load of an image source completes in a viewer in which no pan or
\* zoom has been handled since that source arrived, the ViewTransform is
\* {panX: 0, panY: 0, scale: 1}, whatever was applied to the previous image.
CounterC8 ==
    (/\ Mounted
     /\ last.op = "load"
     /\ last.fresh
     /\ imageDims = <<DimsOf(ui.imageData)>>) => viewState = Origin

\* The regions of the rendered translated pane with a box on the 0..1000 grid.
OnGrid(box) ==
    /\ 0 <= box[1] /\ box[1] < box[3] /\ box[3] <= 1000
    /\ 0 <= box[2] /\ box[2] < box[4] /\ box[4] <= 1000

\* C9. Coordinate fidelity: whatever the aspect ratio, pan, scale and opacity,
\* the overlay of a box on the grid is placed at top = ymin/10, left = xmin/10,
\* width = (xmax-xmin)/10, height = (ymax-ymin)/10 percent (here in hundredths
\* of a percent); (100,200,300,600) gives 10%, 20%, 40%, 20% and (0,0,500,1000)
\* gives 0%, 0%, 100%, 50%.
TheoremC9 ==
    frame.translated # <<>> =>
        \A i \in 1..Len(ui.translations) :
            LET box == ui.translations[i].box_2d
                at  == frame.translated[1].overlays[i].place
            IN  OnGrid(box) =>
                /\ 10 * at.top = 100 * box[1]
                /\ 10 * at.left = 100 * box[2]
                /\ 10 * at.width = 100 * (box[4] - box[2])
                /\ 10 * at.height = 100 * (box[3] - box[1])
                /\ box = <<100, 200, 300, 600>> =>
                       at = [top |-> 1000, left |-> 2000, width |-> 4000, height |-> 2000]
                /\ box = <<0, 0, 500, 1000>> =>
                       at = [top |-> 0, left |-> 0, width |-> 10000, height |-> 5000]

\* C9's case: the box (100,200,300,600) rendered on a portrait image, panned,
\* zoomed and at opacity 0.2.
WitnessC9 ==
    /\ frame.translated # <<>>
    /\ ui.translations[1].box_2d = <<100, 200, 300, 600>>
    /\ frame.translated[1].overlays[1].place =
           [top |-> 1000, left |-> 2000, width |-> 4000, height |-> 2000]
    /\ frame.translated[1].aspect = <<800, 1200>>
    /\ frame.translated[1].transform = [x |-> 20, y |-> 5, scale |-> 2000]
    /\ frame.translated[1].overlays[1].background = 20

\* C10. Orientation: a region is rendered vertical iff
\* (ymax - ymin) > 1.3 * (xmax - xmin), strictly: height 130 by width 100 is
\* horizontal, height 131 by width 100 is vertical.
TheoremC10 ==
    frame.translated # <<>> =>
        \A i \in 1..Len(ui.translations) :
            LET box  == ui.translations[i].box_2d
                mode == frame.translated[1].overlays[i].writingMode
            IN  /\ mode \in {"vertical-rl", "horizontal-tb"}
                /\ (mode = "vertical-rl") <=>
                       (10 * (box[3] - box[1]) > 13 * (box[4] - box[2]))
                /\ (box[3] - box[1] = 130 /\ box[4] - box[2] = 100) =>
                       mode = "horizontal-tb"
                /\ (box[3] - box[1] = 131 /\ box[4] - box[2] = 100) =>
                       mode = "vertical-rl"

\* C10's case: a box of height 130 and width 100 rendered horizontal.
WitnessC10 ==
    /\ frame.translated # <<>>
    /\ ui.translations[1].box_2d = <<100, 100, 230, 200>>
    /\ frame.translated[1].overlays[1].writingMode = "horizontal-tb"

\* C11. Text fit: with len = max(1, length of translatedText), a horizontal region
\* gets fontSize min(85cqh, (95/len)cqw) and lineHeight 1.0, a vertical one
\* min(85cqw, (95/len)cqh) and lineHeight 1.1 (in tenths: 10 and 11); an empty
\* text counts as length 1, so the divisor is never 0; a horizontal text of
\* length 2 gets min(85cqh, 47.5cqw).
TheoremC11 ==
    frame.translated # <<>> =>
        \A i \in 1..Len(ui.translations) :
            LET text     == ui.translations[i].translatedText
                n        == IF Len(text) > 1 THEN Len(text) ELSE 1
                overlay  == frame.translated[1].overlays[i]
                font     == overlay.font
                vertical == overlay.writingMode = "vertical-rl"
            IN  /\ font.capPercent = 85
                /\ font.fitPercent[1] = 95
                /\ font.fitPercent[2] = n
                /\ font.fitPercent[2] # 0
                /\ vertical => /\ font.capUnit = "cqw"
                               /\ font.fitUnit = "cqh"
                               /\ font.lineHeight = 11
                /\ ~vertical => /\ font.capUnit = "cqh"
                                /\ font.fitUnit = "cqw"
                                /\ font.lineHeight = 10
                /\ (~vertical /\ Len(text) = 2) =>
                       10 * font.fitPercent[1] = 475 * font.fitPercent[2]

\* C11's case: an empty translatedText rendered in a vertical box.
WitnessC11 ==
    /\ frame.translated # <<>>
    /\ ui.translations[1].translatedText = <<>>
    /\ frame.translated[1].overlays[1].writingMode = "vertical-rl"
    /\ frame.translated[1].overlays[1].font.fitPercent = <<95, 1>>

\* C12. Malformed boxes: for every region box, inverted or outside 0..1000
\* included, the overlay rendered has a strictly positive width and height and
\* lies within 0..100% of the image (the placement of the clamped box).
CounterC12 ==
    frame.translated # <<>> =>
        \A i \in 1..Len(ui.translations) :
            LET at == frame.translated[1].overlays[i].place
            IN  /\ at.width > 0
                /\ at.height > 0
                /\ at.top >= 0
                /\ at.left >= 0
                /\ at.top + at.height <= 10000
                /\ at.left + at.width <= 10000

\* C13. Nothing is rendered before the dimensions are known: while the load of
\* the image source the viewer has been given is still in flight, both panes
\* render nothing (and so for ever if that load never completes).
CounterC13 ==
    (Mounted /\ ui.imageData \in loads) => frame = NoFrame

\* C14. Stale image-load completions are ignored: the completion of the load of
\* a source that is no longer the viewer's image source leaves the stored
\* dimensions as they are.
CounterC14 ==
    [][\A s \in Sources :
          (imgOnload(s) /\ s # ui.imageData) => imageDims' = imageDims]_vars

\* The panes a render at opacity o would produce.
PanesAt(o) ==
    RenderPanes(viewState, isDragging, imageDims, o, ui.imageData, ui.translations)

\* A pane with the overlays' backgrounds left out.
Unfilled(pane) ==
    IF pane = <<>> THEN <<>>
    ELSE <<[pane[1] EXCEPT !.overlays =
                [i \in 1..Len(pane[1].overlays) |->
                    [pane[1].overlays[i] EXCEPT !.background = 0]]]>>

\* C15. Overlay opacity: from 0.8, after any slider changes (values 20..100,
\* opacity = value / 100) interleaved with pan, zoom and reset events the opacity
\* lies in [0.2, 1.0] (in hundredths: 20..100); every overlay box of the
\* translated pane has it as its background, and nothing else that is rendered
\* depends on it: the original pane is the same at every opacity, and so is the
\* translated pane but for the overlays' backgrounds.
TheoremC15 ==
    /\ overlayOpacity >= 20
    /\ overlayOpacity <= 100
    /\ frame.translated # <<>> =>
           \A i \in 1..Len(frame.translated[1].overlays) :
               /\ frame.translated[1].overlays[i].background >= 20
               /\ frame.translated[1].overlays[i].background <= 100
    /\ \A o \in {20, 55, 80, 100} :
           /\ PanesAt(o).original = PanesAt(overlayOpacity).original
           /\ Unfilled(PanesAt(o).translated) = Unfilled(PanesAt(overlayOpacity).translated)
           /\ PanesAt(o).translated # <<>> =>
                  \A i \in 1..Len(PanesAt(o).translated[1].overlays) :
                      PanesAt(o).translated[1].overlays[i].background = o

\* C15's case: the slider set to 20 after panning and zooming, and the overlays
\* rendered at 0.2.
WitnessC15 ==
    /\ last.op = "opacity"
    /\ overlayOpacity = 20
    /\ viewState = [x |-> 10, y |-> 5, scale |-> 1500]
    /\ frame.translated # <<>>
    /\ frame.translated[1].overlays[1].background = 20
    /\ frame.translated[1].overlays[2].background = 20

\* C16. Pane composition: every frame rendered once the image dimensions are
\* known has the image in both panes, no overlay box in the original pane, and
\* in the translated pane one overlay box per region, the i-th box carrying the
\* i-th region's text at the i-th region's place; with an empty region list the
\* translated pane has the image and no overlays.
TheoremC16 ==
    /\ (imageDims # <<>> /\ last.op # "load") => frame.original # <<>>
    /\ frame.original # <<>> =>
           /\ frame.translated # <<>>
           /\ frame.original[1].image = ui.imageData
           /\ frame.original[1].overlays = <<>>
           /\ frame.translated[1].image = ui.imageData
           /\ Len(frame.translated[1].overlays) = Len(ui.translations)
           /\ \A i \in 1..Len(ui.translations) :
                  /\ frame.translated[1].overlays[i].text =
                         ui.translations[i].translatedText
                  /\ 10 * frame.translated[1].overlays[i].place.top =
                         100 * ui.translations[i].box_2d[1]
                  /\ 10 * frame.translated[1].overlays[i].place.left =
                         100 * ui.translations[i].box_2d[2]
           /\ ui.translations = <<>> => frame.translated[1].overlays = <<>>

\* C16's case: a list of two regions rendered, the empty text's box first.
WitnessC16 ==
    /\ frame.original # <<>>
    /\ Len(ui.translations) = 2
    /\ ui.translations[1].translatedText = <<>>
    /\ frame.translated[1].overlays[1].text = <<>>
    /\ frame.translated[1].overlays[2].text = <<"x", "y">>
    /\ frame.original[1].overlays = <<>>

\* C17. Frame conditions: (panX, panY) change only in a pointer-move handled
\* while Dragging and in a reset; the scale changes only in a wheel event, a
\* stepper click and a reset.  So a move while Idle, a down, an up or leave, an
\* opacity change and a load completion change none of the three, a wheel or
\* stepper event changes no pan, and a move changes no scale.
CounterC17 ==
    [][/\ <<viewState'.x, viewState'.y>> # <<viewState.x, viewState.y>> =>
              \/ last'.op = "reset"
              \/ last'.op = "move" /\ isDragging
       /\ viewState'.scale # viewState.scale =>
              last'.op \in {"wheel", "minus", "plus", "reset"}]_vars

\* C17 with Dragging read as the isDragging the handler captured.
FrameByClosure ==
    [][/\ <<viewState'.x, viewState'.y>> # <<viewState.x, viewState.y>> =>
              \/ last'.op = "reset"
              \/ last'.op = "move" /\ closure.isDragging
       /\ viewState'.scale # viewState.scale =>
              last'.op \in {"wheel", "minus", "plus", "reset"}]_vars

\* C18. Image/translation consistency: whenever App shows the viewer, the
\* translations it passes are the result of the translate call made for the
\* imageData it passes.
CounterC18 ==
    Mounted => ui.translations = RegionsOf(ui.imageData)

\* C19. No blank VIEWING state: whenever appState is VIEWING, imageData is not
\* null, also when resetApp ran while a processImage call was in flight.
CounterC19 ==
    appState = "VIEWING" => imageData # NoImage

\* C20. Camera stream release: no stream a CameraCapture instance acquired is
\* live once that instance is gone (dismissed by capture, by Cancel or by any
\* other unmount, the stream obtained before or after).
CounterC20 ==
    \A i \in Sessions : streams[i] = "live" => cam.id = i

====
